---- MODULE Spec2Model ----
\* Model of bkflow_dmn/audit.py: the audit session kept in a ContextVar,
\* the AuditTrail / DecisionTrace objects, and log_decision with its
\* expression substitution helper.
EXTENDS Integers, Sequences, FiniteSets, TLC

VARIABLES
    ctx,     \* _audit_context: execution context -> active trail id (0 is None)
    trails,  \* AuditTrail objects by identity: trail id -> its traces list
    heap,    \* dict / list objects by identity: object id -> [cls, items]
    held,    \* the argument objects of the last log_decision call that stored a trace,
             \* still held by its caller
    ret,     \* the outcome of the last call of start_audit, stop_audit, log_decision
             \* or AuditTrail.add_trace: the operation, its context and its result
    muts,    \* number of mutations callers made on objects they hold
    sub,     \* one run of evaluate_expression: its arguments, its position and its locals
    units    \* concurrent execution units inside log_decision: unit -> position and locals

vars == <<ctx, trails, heap, held, ret, muts, sub, units>>

\* ---------------------------------------------------------------- bounds
MaxCtx == 2
\* AuditTrail and DecisionTrace objects created in a run.
MaxObjs == 4
MaxMuts == 1
\* Traces appended by direct calls of add_trace in a run.
MaxDirect == 1

\* ---------------------------------------------------------------- values
\* Python values as tagged records. A text is a sequence of characters.
VBool(b) == [k |-> "bool", v |-> b]
VInt(n) == [k |-> "int", v |-> n]
VStr(s) == [k |-> "str", v |-> s]
VList(l) == [k |-> "list", v |-> l]
VRow(r) == [k |-> "row", v |-> r]
VRef(o) == [k |-> "ref", v |-> o]
VNone == [k |-> "none", v |-> 0]

None == 0

Entry(key, val) == [key |-> key, val |-> val]
DictObj(items) == [cls |-> "dict", items |-> items]
ListObj(items) == [cls |-> "list", items |-> items]

VOwn(items) == [k |-> "own", v |-> items]

\* The heap maps the identities of the live dict and list objects to the objects.
\* A new object gets an identity above every live one.
NewId(h) == IF DOMAIN h = {} THEN 1 ELSE (CHOOSE o \in DOMAIN h : \A q \in DOMAIN h : q <= o) + 1
\* The heap h with the new objects objs, allocated in this order.
AllocAll(h, objs) ==
    LET base == NewId(h) - 1 IN
    [o \in DOMAIN h \cup {base + i : i \in 1..Len(objs)} |->
        IF o \in DOMAIN h THEN h[o] ELSE objs[o - base]]

\* A container field of a trace is VRef(o), the object o of the heap, or
\* VOwn(items), an object that only the trace refers to, given by its entries.
Deref(h, x) == IF x.k = "ref" THEN h[x.v].items ELSE x.v

\* The value of an entry: of a dict entry its val, of a list entry itself.
ItemVal(e) == IF "val" \in DOMAIN e THEN e.val ELSE e
RefsOf(items) ==
    {ItemVal(items[i]).v : i \in {j \in 1..Len(items) : ItemVal(items[j]).k = "ref"}}

\* ---------------------------------------------------------------- texts
Digits == <<"0", "1", "2", "3", "4", "5", "6", "7", "8", "9">>
DigitChars == {Digits[i] : i \in 1..10}
AsciiLetters ==
    {"a", "b", "c", "d", "e", "f", "g", "h", "i", "j", "k", "l", "m",
     "n", "o", "p", "q", "r", "s", "t", "u", "v", "w", "x", "y", "z",
     "A", "B", "C", "D", "E", "F", "G", "H", "I", "J", "K", "L", "M",
     "N", "O", "P", "Q", "R", "S", "T", "U", "V", "W", "X", "Y", "Z"}
\* A text is a sequence of characters. A printable ASCII character is the
\* string of that character (the backquote is "U+0060"); of the control characters, tab, newline, form feed
\* and carriage return are "\t", "\n", "\f", "\r", and bell, backspace and
\* vertical tab are "<BEL>", "<BS>", "<VT>"; every other character is the
\* string "U+" and the hexadecimal digits of its code point, four of them up to
\* U+FFFF and five or six beyond, without leading zeros.
\* The characters of the code points 0..255:
Chars256 ==
  << "U+0000", "U+0001", "U+0002", "U+0003", "U+0004", "U+0005", "U+0006", "<BEL>",
     "<BS>", "\t", "\n", "<VT>", "\f", "\r", "U+000E", "U+000F",
     "U+0010", "U+0011", "U+0012", "U+0013", "U+0014", "U+0015", "U+0016", "U+0017",
     "U+0018", "U+0019", "U+001A", "U+001B", "U+001C", "U+001D", "U+001E", "U+001F",
     " ", "!", "\"", "#", "$", "%", "&", "'",
     "(", ")", "*", "+", ",", "-", ".", "/",
     "0", "1", "2", "3", "4", "5", "6", "7",
     "8", "9", ":", ";", "<", "=", ">", "?",
     "@", "A", "B", "C", "D", "E", "F", "G",
     "H", "I", "J", "K", "L", "M", "N", "O",
     "P", "Q", "R", "S", "T", "U", "V", "W",
     "X", "Y", "Z", "[", "\\", "]", "^", "_",
     "U+0060", "a", "b", "c", "d", "e", "f", "g",
     "h", "i", "j", "k", "l", "m", "n", "o",
     "p", "q", "r", "s", "t", "u", "v", "w",
     "x", "y", "z", "{", "|", "}", "~", "U+007F",
     "U+0080", "U+0081", "U+0082", "U+0083", "U+0084", "U+0085", "U+0086", "U+0087",
     "U+0088", "U+0089", "U+008A", "U+008B", "U+008C", "U+008D", "U+008E", "U+008F",
     "U+0090", "U+0091", "U+0092", "U+0093", "U+0094", "U+0095", "U+0096", "U+0097",
     "U+0098", "U+0099", "U+009A", "U+009B", "U+009C", "U+009D", "U+009E", "U+009F",
     "U+00A0", "U+00A1", "U+00A2", "U+00A3", "U+00A4", "U+00A5", "U+00A6", "U+00A7",
     "U+00A8", "U+00A9", "U+00AA", "U+00AB", "U+00AC", "U+00AD", "U+00AE", "U+00AF",
     "U+00B0", "U+00B1", "U+00B2", "U+00B3", "U+00B4", "U+00B5", "U+00B6", "U+00B7",
     "U+00B8", "U+00B9", "U+00BA", "U+00BB", "U+00BC", "U+00BD", "U+00BE", "U+00BF",
     "U+00C0", "U+00C1", "U+00C2", "U+00C3", "U+00C4", "U+00C5", "U+00C6", "U+00C7",
     "U+00C8", "U+00C9", "U+00CA", "U+00CB", "U+00CC", "U+00CD", "U+00CE", "U+00CF",
     "U+00D0", "U+00D1", "U+00D2", "U+00D3", "U+00D4", "U+00D5", "U+00D6", "U+00D7",
     "U+00D8", "U+00D9", "U+00DA", "U+00DB", "U+00DC", "U+00DD", "U+00DE", "U+00DF",
     "U+00E0", "U+00E1", "U+00E2", "U+00E3", "U+00E4", "U+00E5", "U+00E6", "U+00E7",
     "U+00E8", "U+00E9", "U+00EA", "U+00EB", "U+00EC", "U+00ED", "U+00EE", "U+00EF",
     "U+00F0", "U+00F1", "U+00F2", "U+00F3", "U+00F4", "U+00F5", "U+00F6", "U+00F7",
     "U+00F8", "U+00F9", "U+00FA", "U+00FB", "U+00FC", "U+00FD", "U+00FE", "U+00FF" >>
HexDigits == <<"0", "1", "2", "3", "4", "5", "6", "7", "8", "9", "A", "B", "C", "D", "E", "F">>
\* The last four hexadecimal digits of n, and those before them (n up to \h10FFFF).
Hex4(n) ==
    HexDigits[((n \div 4096) % 16) + 1] \o HexDigits[((n \div 256) % 16) + 1]
    \o HexDigits[((n \div 16) % 16) + 1] \o HexDigits[(n % 16) + 1]
HexHigh(n) ==
    IF n < 65536 THEN "" ELSE IF n < 1048576 THEN HexDigits[(n \div 65536) + 1] ELSE "10"
\* chr(n): the character of code point n.
Chr(n) == IF n < 256 THEN Chars256[n + 1] ELSE "U+" \o HexHigh(n) \o Hex4(n)

\* The code points beyond ASCII of the characters that \w matches in a str
\* pattern, the Unicode letters and digits (str.isalnum), as ranges <<first, last>>.
WordRanges ==
  <<
     <<\h00AA, \h00AA>>, <<\h00B2, \h00B3>>, <<\h00B5, \h00B5>>, <<\h00B9, \h00BA>>, <<\h00BC, \h00BE>>,
     <<\h00C0, \h00D6>>, <<\h00D8, \h00F6>>, <<\h00F8, \h02C1>>, <<\h02C6, \h02D1>>, <<\h02E0, \h02E4>>,
     <<\h02EC, \h02EC>>, <<\h02EE, \h02EE>>, <<\h0370, \h0374>>, <<\h0376, \h0377>>, <<\h037A, \h037D>>,
     <<\h037F, \h037F>>, <<\h0386, \h0386>>, <<\h0388, \h038A>>, <<\h038C, \h038C>>, <<\h038E, \h03A1>>,
     <<\h03A3, \h03F5>>, <<\h03F7, \h0481>>, <<\h048A, \h052F>>, <<\h0531, \h0556>>, <<\h0559, \h0559>>,
     <<\h0560, \h0588>>, <<\h05D0, \h05EA>>, <<\h05EF, \h05F2>>, <<\h0620, \h064A>>, <<\h0660, \h0669>>,
     <<\h066E, \h066F>>, <<\h0671, \h06D3>>, <<\h06D5, \h06D5>>, <<\h06E5, \h06E6>>, <<\h06EE, \h06FC>>,
     <<\h06FF, \h06FF>>, <<\h0710, \h0710>>, <<\h0712, \h072F>>, <<\h074D, \h07A5>>, <<\h07B1, \h07B1>>,
     <<\h07C0, \h07EA>>, <<\h07F4, \h07F5>>, <<\h07FA, \h07FA>>, <<\h0800, \h0815>>, <<\h081A, \h081A>>,
     <<\h0824, \h0824>>, <<\h0828, \h0828>>, <<\h0840, \h0858>>, <<\h0860, \h086A>>, <<\h0870, \h0887>>,
     <<\h0889, \h088E>>, <<\h08A0, \h08C9>>, <<\h0904, \h0939>>, <<\h093D, \h093D>>, <<\h0950, \h0950>>,
     <<\h0958, \h0961>>, <<\h0966, \h096F>>, <<\h0971, \h0980>>, <<\h0985, \h098C>>, <<\h098F, \h0990>>,
     <<\h0993, \h09A8>>, <<\h09AA, \h09B0>>, <<\h09B2, \h09B2>>, <<\h09B6, \h09B9>>, <<\h09BD, \h09BD>>,
     <<\h09CE, \h09CE>>, <<\h09DC, \h09DD>>, <<\h09DF, \h09E1>>, <<\h09E6, \h09F1>>, <<\h09F4, \h09F9>>,
     <<\h09FC, \h09FC>>, <<\h0A05, \h0A0A>>, <<\h0A0F, \h0A10>>, <<\h0A13, \h0A28>>, <<\h0A2A, \h0A30>>,
     <<\h0A32, \h0A33>>, <<\h0A35, \h0A36>>, <<\h0A38, \h0A39>>, <<\h0A59, \h0A5C>>, <<\h0A5E, \h0A5E>>,
     <<\h0A66, \h0A6F>>, <<\h0A72, \h0A74>>, <<\h0A85, \h0A8D>>, <<\h0A8F, \h0A91>>, <<\h0A93, \h0AA8>>,
     <<\h0AAA, \h0AB0>>, <<\h0AB2, \h0AB3>>, <<\h0AB5, \h0AB9>>, <<\h0ABD, \h0ABD>>, <<\h0AD0, \h0AD0>>,
     <<\h0AE0, \h0AE1>>, <<\h0AE6, \h0AEF>>, <<\h0AF9, \h0AF9>>, <<\h0B05, \h0B0C>>, <<\h0B0F, \h0B10>>,
     <<\h0B13, \h0B28>>, <<\h0B2A, \h0B30>>, <<\h0B32, \h0B33>>, <<\h0B35, \h0B39>>, <<\h0B3D, \h0B3D>>,
     <<\h0B5C, \h0B5D>>, <<\h0B5F, \h0B61>>, <<\h0B66, \h0B6F>>, <<\h0B71, \h0B77>>, <<\h0B83, \h0B83>>,
     <<\h0B85, \h0B8A>>, <<\h0B8E, \h0B90>>, <<\h0B92, \h0B95>>, <<\h0B99, \h0B9A>>, <<\h0B9C, \h0B9C>>,
     <<\h0B9E, \h0B9F>>, <<\h0BA3, \h0BA4>>, <<\h0BA8, \h0BAA>>, <<\h0BAE, \h0BB9>>, <<\h0BD0, \h0BD0>>,
     <<\h0BE6, \h0BF2>>, <<\h0C05, \h0C0C>>, <<\h0C0E, \h0C10>>, <<\h0C12, \h0C28>>, <<\h0C2A, \h0C39>>,
     <<\h0C3D, \h0C3D>>, <<\h0C58, \h0C5A>>, <<\h0C5D, \h0C5D>>, <<\h0C60, \h0C61>>, <<\h0C66, \h0C6F>>,
     <<\h0C78, \h0C7E>>, <<\h0C80, \h0C80>>, <<\h0C85, \h0C8C>>, <<\h0C8E, \h0C90>>, <<\h0C92, \h0CA8>>,
     <<\h0CAA, \h0CB3>>, <<\h0CB5, \h0CB9>>, <<\h0CBD, \h0CBD>>, <<\h0CDD, \h0CDE>>, <<\h0CE0, \h0CE1>>,
     <<\h0CE6, \h0CEF>>, <<\h0CF1, \h0CF2>>, <<\h0D04, \h0D0C>>, <<\h0D0E, \h0D10>>, <<\h0D12, \h0D3A>>,
     <<\h0D3D, \h0D3D>>, <<\h0D4E, \h0D4E>>, <<\h0D54, \h0D56>>, <<\h0D58, \h0D61>>, <<\h0D66, \h0D78>>,
     <<\h0D7A, \h0D7F>>, <<\h0D85, \h0D96>>, <<\h0D9A, \h0DB1>>, <<\h0DB3, \h0DBB>>, <<\h0DBD, \h0DBD>>,
     <<\h0DC0, \h0DC6>>, <<\h0DE6, \h0DEF>>, <<\h0E01, \h0E30>>, <<\h0E32, \h0E33>>, <<\h0E40, \h0E46>>,
     <<\h0E50, \h0E59>>, <<\h0E81, \h0E82>>, <<\h0E84, \h0E84>>, <<\h0E86, \h0E8A>>, <<\h0E8C, \h0EA3>>,
     <<\h0EA5, \h0EA5>>, <<\h0EA7, \h0EB0>>, <<\h0EB2, \h0EB3>>, <<\h0EBD, \h0EBD>>, <<\h0EC0, \h0EC4>>,
     <<\h0EC6, \h0EC6>>, <<\h0ED0, \h0ED9>>, <<\h0EDC, \h0EDF>>, <<\h0F00, \h0F00>>, <<\h0F20, \h0F33>>,
     <<\h0F40, \h0F47>>, <<\h0F49, \h0F6C>>, <<\h0F88, \h0F8C>>, <<\h1000, \h102A>>, <<\h103F, \h1049>>,
     <<\h1050, \h1055>>, <<\h105A, \h105D>>, <<\h1061, \h1061>>, <<\h1065, \h1066>>, <<\h106E, \h1070>>,
     <<\h1075, \h1081>>, <<\h108E, \h108E>>, <<\h1090, \h1099>>, <<\h10A0, \h10C5>>, <<\h10C7, \h10C7>>,
     <<\h10CD, \h10CD>>, <<\h10D0, \h10FA>>, <<\h10FC, \h1248>>, <<\h124A, \h124D>>, <<\h1250, \h1256>>,
     <<\h1258, \h1258>>, <<\h125A, \h125D>>, <<\h1260, \h1288>>, <<\h128A, \h128D>>, <<\h1290, \h12B0>>,
     <<\h12B2, \h12B5>>, <<\h12B8, \h12BE>>, <<\h12C0, \h12C0>>, <<\h12C2, \h12C5>>, <<\h12C8, \h12D6>>,
     <<\h12D8, \h1310>>, <<\h1312, \h1315>>, <<\h1318, \h135A>>, <<\h1369, \h137C>>, <<\h1380, \h138F>>,
     <<\h13A0, \h13F5>>, <<\h13F8, \h13FD>>, <<\h1401, \h166C>>, <<\h166F, \h167F>>, <<\h1681, \h169A>>,
     <<\h16A0, \h16EA>>, <<\h16EE, \h16F8>>, <<\h1700, \h1711>>, <<\h171F, \h1731>>, <<\h1740, \h1751>>,
     <<\h1760, \h176C>>, <<\h176E, \h1770>>, <<\h1780, \h17B3>>, <<\h17D7, \h17D7>>, <<\h17DC, \h17DC>>,
     <<\h17E0, \h17E9>>, <<\h17F0, \h17F9>>, <<\h1810, \h1819>>, <<\h1820, \h1878>>, <<\h1880, \h1884>>,
     <<\h1887, \h18A8>>, <<\h18AA, \h18AA>>, <<\h18B0, \h18F5>>, <<\h1900, \h191E>>, <<\h1946, \h196D>>,
     <<\h1970, \h1974>>, <<\h1980, \h19AB>>, <<\h19B0, \h19C9>>, <<\h19D0, \h19DA>>, <<\h1A00, \h1A16>>,
     <<\h1A20, \h1A54>>, <<\h1A80, \h1A89>>, <<\h1A90, \h1A99>>, <<\h1AA7, \h1AA7>>, <<\h1B05, \h1B33>>,
     <<\h1B45, \h1B4C>>, <<\h1B50, \h1B59>>, <<\h1B83, \h1BA0>>, <<\h1BAE, \h1BE5>>, <<\h1C00, \h1C23>>,
     <<\h1C40, \h1C49>>, <<\h1C4D, \h1C7D>>, <<\h1C80, \h1C88>>, <<\h1C90, \h1CBA>>, <<\h1CBD, \h1CBF>>,
     <<\h1CE9, \h1CEC>>, <<\h1CEE, \h1CF3>>, <<\h1CF5, \h1CF6>>, <<\h1CFA, \h1CFA>>, <<\h1D00, \h1DBF>>,
     <<\h1E00, \h1F15>>, <<\h1F18, \h1F1D>>, <<\h1F20, \h1F45>>, <<\h1F48, \h1F4D>>, <<\h1F50, \h1F57>>,
     <<\h1F59, \h1F59>>, <<\h1F5B, \h1F5B>>, <<\h1F5D, \h1F5D>>, <<\h1F5F, \h1F7D>>, <<\h1F80, \h1FB4>>,
     <<\h1FB6, \h1FBC>>, <<\h1FBE, \h1FBE>>, <<\h1FC2, \h1FC4>>, <<\h1FC6, \h1FCC>>, <<\h1FD0, \h1FD3>>,
     <<\h1FD6, \h1FDB>>, <<\h1FE0, \h1FEC>>, <<\h1FF2, \h1FF4>>, <<\h1FF6, \h1FFC>>, <<\h2070, \h2071>>,
     <<\h2074, \h2079>>, <<\h207F, \h2089>>, <<\h2090, \h209C>>, <<\h2102, \h2102>>, <<\h2107, \h2107>>,
     <<\h210A, \h2113>>, <<\h2115, \h2115>>, <<\h2119, \h211D>>, <<\h2124, \h2124>>, <<\h2126, \h2126>>,
     <<\h2128, \h2128>>, <<\h212A, \h212D>>, <<\h212F, \h2139>>, <<\h213C, \h213F>>, <<\h2145, \h2149>>,
     <<\h214E, \h214E>>, <<\h2150, \h2189>>, <<\h2460, \h249B>>, <<\h24EA, \h24FF>>, <<\h2776, \h2793>>,
     <<\h2C00, \h2CE4>>, <<\h2CEB, \h2CEE>>, <<\h2CF2, \h2CF3>>, <<\h2CFD, \h2CFD>>, <<\h2D00, \h2D25>>,
     <<\h2D27, \h2D27>>, <<\h2D2D, \h2D2D>>, <<\h2D30, \h2D67>>, <<\h2D6F, \h2D6F>>, <<\h2D80, \h2D96>>,
     <<\h2DA0, \h2DA6>>, <<\h2DA8, \h2DAE>>, <<\h2DB0, \h2DB6>>, <<\h2DB8, \h2DBE>>, <<\h2DC0, \h2DC6>>,
     <<\h2DC8, \h2DCE>>, <<\h2DD0, \h2DD6>>, <<\h2DD8, \h2DDE>>, <<\h2E2F, \h2E2F>>, <<\h3005, \h3007>>,
     <<\h3021, \h3029>>, <<\h3031, \h3035>>, <<\h3038, \h303C>>, <<\h3041, \h3096>>, <<\h309D, \h309F>>,
     <<\h30A1, \h30FA>>, <<\h30FC, \h30FF>>, <<\h3105, \h312F>>, <<\h3131, \h318E>>, <<\h3192, \h3195>>,
     <<\h31A0, \h31BF>>, <<\h31F0, \h31FF>>, <<\h3220, \h3229>>, <<\h3248, \h324F>>, <<\h3251, \h325F>>,
     <<\h3280, \h3289>>, <<\h32B1, \h32BF>>, <<\h3400, \h4DBF>>, <<\h4E00, \hA48C>>, <<\hA4D0, \hA4FD>>,
     <<\hA500, \hA60C>>, <<\hA610, \hA62B>>, <<\hA640, \hA66E>>, <<\hA67F, \hA69D>>, <<\hA6A0, \hA6EF>>,
     <<\hA717, \hA71F>>, <<\hA722, \hA788>>, <<\hA78B, \hA7CA>>, <<\hA7D0, \hA7D1>>, <<\hA7D3, \hA7D3>>,
     <<\hA7D5, \hA7D9>>, <<\hA7F2, \hA801>>, <<\hA803, \hA805>>, <<\hA807, \hA80A>>, <<\hA80C, \hA822>>,
     <<\hA830, \hA835>>, <<\hA840, \hA873>>, <<\hA882, \hA8B3>>, <<\hA8D0, \hA8D9>>, <<\hA8F2, \hA8F7>>,
     <<\hA8FB, \hA8FB>>, <<\hA8FD, \hA8FE>>, <<\hA900, \hA925>>, <<\hA930, \hA946>>, <<\hA960, \hA97C>>,
     <<\hA984, \hA9B2>>, <<\hA9CF, \hA9D9>>, <<\hA9E0, \hA9E4>>, <<\hA9E6, \hA9FE>>, <<\hAA00, \hAA28>>,
     <<\hAA40, \hAA42>>, <<\hAA44, \hAA4B>>, <<\hAA50, \hAA59>>, <<\hAA60, \hAA76>>, <<\hAA7A, \hAA7A>>,
     <<\hAA7E, \hAAAF>>, <<\hAAB1, \hAAB1>>, <<\hAAB5, \hAAB6>>, <<\hAAB9, \hAABD>>, <<\hAAC0, \hAAC0>>,
     <<\hAAC2, \hAAC2>>, <<\hAADB, \hAADD>>, <<\hAAE0, \hAAEA>>, <<\hAAF2, \hAAF4>>, <<\hAB01, \hAB06>>,
     <<\hAB09, \hAB0E>>, <<\hAB11, \hAB16>>, <<\hAB20, \hAB26>>, <<\hAB28, \hAB2E>>, <<\hAB30, \hAB5A>>,
     <<\hAB5C, \hAB69>>, <<\hAB70, \hABE2>>, <<\hABF0, \hABF9>>, <<\hAC00, \hD7A3>>, <<\hD7B0, \hD7C6>>,
     <<\hD7CB, \hD7FB>>, <<\hF900, \hFA6D>>, <<\hFA70, \hFAD9>>, <<\hFB00, \hFB06>>, <<\hFB13, \hFB17>>,
     <<\hFB1D, \hFB1D>>, <<\hFB1F, \hFB28>>, <<\hFB2A, \hFB36>>, <<\hFB38, \hFB3C>>, <<\hFB3E, \hFB3E>>,
     <<\hFB40, \hFB41>>, <<\hFB43, \hFB44>>, <<\hFB46, \hFBB1>>, <<\hFBD3, \hFD3D>>, <<\hFD50, \hFD8F>>,
     <<\hFD92, \hFDC7>>, <<\hFDF0, \hFDFB>>, <<\hFE70, \hFE74>>, <<\hFE76, \hFEFC>>, <<\hFF10, \hFF19>>,
     <<\hFF21, \hFF3A>>, <<\hFF41, \hFF5A>>, <<\hFF66, \hFFBE>>, <<\hFFC2, \hFFC7>>, <<\hFFCA, \hFFCF>>,
     <<\hFFD2, \hFFD7>>, <<\hFFDA, \hFFDC>>, <<\h10000, \h1000B>>, <<\h1000D, \h10026>>, <<\h10028, \h1003A>>,
     <<\h1003C, \h1003D>>, <<\h1003F, \h1004D>>, <<\h10050, \h1005D>>, <<\h10080, \h100FA>>, <<\h10107, \h10133>>,
     <<\h10140, \h10178>>, <<\h1018A, \h1018B>>, <<\h10280, \h1029C>>, <<\h102A0, \h102D0>>, <<\h102E1, \h102FB>>,
     <<\h10300, \h10323>>, <<\h1032D, \h1034A>>, <<\h10350, \h10375>>, <<\h10380, \h1039D>>, <<\h103A0, \h103C3>>,
     <<\h103C8, \h103CF>>, <<\h103D1, \h103D5>>, <<\h10400, \h1049D>>, <<\h104A0, \h104A9>>, <<\h104B0, \h104D3>>,
     <<\h104D8, \h104FB>>, <<\h10500, \h10527>>, <<\h10530, \h10563>>, <<\h10570, \h1057A>>, <<\h1057C, \h1058A>>,
     <<\h1058C, \h10592>>, <<\h10594, \h10595>>, <<\h10597, \h105A1>>, <<\h105A3, \h105B1>>, <<\h105B3, \h105B9>>,
     <<\h105BB, \h105BC>>, <<\h10600, \h10736>>, <<\h10740, \h10755>>, <<\h10760, \h10767>>, <<\h10780, \h10785>>,
     <<\h10787, \h107B0>>, <<\h107B2, \h107BA>>, <<\h10800, \h10805>>, <<\h10808, \h10808>>, <<\h1080A, \h10835>>,
     <<\h10837, \h10838>>, <<\h1083C, \h1083C>>, <<\h1083F, \h10855>>, <<\h10858, \h10876>>, <<\h10879, \h1089E>>,
     <<\h108A7, \h108AF>>, <<\h108E0, \h108F2>>, <<\h108F4, \h108F5>>, <<\h108FB, \h1091B>>, <<\h10920, \h10939>>,
     <<\h10980, \h109B7>>, <<\h109BC, \h109CF>>, <<\h109D2, \h10A00>>, <<\h10A10, \h10A13>>, <<\h10A15, \h10A17>>,
     <<\h10A19, \h10A35>>, <<\h10A40, \h10A48>>, <<\h10A60, \h10A7E>>, <<\h10A80, \h10A9F>>, <<\h10AC0, \h10AC7>>,
     <<\h10AC9, \h10AE4>>, <<\h10AEB, \h10AEF>>, <<\h10B00, \h10B35>>, <<\h10B40, \h10B55>>, <<\h10B58, \h10B72>>,
     <<\h10B78, \h10B91>>, <<\h10BA9, \h10BAF>>, <<\h10C00, \h10C48>>, <<\h10C80, \h10CB2>>, <<\h10CC0, \h10CF2>>,
     <<\h10CFA, \h10D23>>, <<\h10D30, \h10D39>>, <<\h10E60, \h10E7E>>, <<\h10E80, \h10EA9>>, <<\h10EB0, \h10EB1>>,
     <<\h10F00, \h10F27>>, <<\h10F30, \h10F45>>, <<\h10F51, \h10F54>>, <<\h10F70, \h10F81>>, <<\h10FB0, \h10FCB>>,
     <<\h10FE0, \h10FF6>>, <<\h11003, \h11037>>, <<\h11052, \h1106F>>, <<\h11071, \h11072>>, <<\h11075, \h11075>>,
     <<\h11083, \h110AF>>, <<\h110D0, \h110E8>>, <<\h110F0, \h110F9>>, <<\h11103, \h11126>>, <<\h11136, \h1113F>>,
     <<\h11144, \h11144>>, <<\h11147, \h11147>>, <<\h11150, \h11172>>, <<\h11176, \h11176>>, <<\h11183, \h111B2>>,
     <<\h111C1, \h111C4>>, <<\h111D0, \h111DA>>, <<\h111DC, \h111DC>>, <<\h111E1, \h111F4>>, <<\h11200, \h11211>>,
     <<\h11213, \h1122B>>, <<\h11280, \h11286>>, <<\h11288, \h11288>>, <<\h1128A, \h1128D>>, <<\h1128F, \h1129D>>,
     <<\h1129F, \h112A8>>, <<\h112B0, \h112DE>>, <<\h112F0, \h112F9>>, <<\h11305, \h1130C>>, <<\h1130F, \h11310>>,
     <<\h11313, \h11328>>, <<\h1132A, \h11330>>, <<\h11332, \h11333>>, <<\h11335, \h11339>>, <<\h1133D, \h1133D>>,
     <<\h11350, \h11350>>, <<\h1135D, \h11361>>, <<\h11400, \h11434>>, <<\h11447, \h1144A>>, <<\h11450, \h11459>>,
     <<\h1145F, \h11461>>, <<\h11480, \h114AF>>, <<\h114C4, \h114C5>>, <<\h114C7, \h114C7>>, <<\h114D0, \h114D9>>,
     <<\h11580, \h115AE>>, <<\h115D8, \h115DB>>, <<\h11600, \h1162F>>, <<\h11644, \h11644>>, <<\h11650, \h11659>>,
     <<\h11680, \h116AA>>, <<\h116B8, \h116B8>>, <<\h116C0, \h116C9>>, <<\h11700, \h1171A>>, <<\h11730, \h1173B>>,
     <<\h11740, \h11746>>, <<\h11800, \h1182B>>, <<\h118A0, \h118F2>>, <<\h118FF, \h11906>>, <<\h11909, \h11909>>,
     <<\h1190C, \h11913>>, <<\h11915, \h11916>>, <<\h11918, \h1192F>>, <<\h1193F, \h1193F>>, <<\h11941, \h11941>>,
     <<\h11950, \h11959>>, <<\h119A0, \h119A7>>, <<\h119AA, \h119D0>>, <<\h119E1, \h119E1>>, <<\h119E3, \h119E3>>,
     <<\h11A00, \h11A00>>, <<\h11A0B, \h11A32>>, <<\h11A3A, \h11A3A>>, <<\h11A50, \h11A50>>, <<\h11A5C, \h11A89>>,
     <<\h11A9D, \h11A9D>>, <<\h11AB0, \h11AF8>>, <<\h11C00, \h11C08>>, <<\h11C0A, \h11C2E>>, <<\h11C40, \h11C40>>,
     <<\h11C50, \h11C6C>>, <<\h11C72, \h11C8F>>, <<\h11D00, \h11D06>>, <<\h11D08, \h11D09>>, <<\h11D0B, \h11D30>>,
     <<\h11D46, \h11D46>>, <<\h11D50, \h11D59>>, <<\h11D60, \h11D65>>, <<\h11D67, \h11D68>>, <<\h11D6A, \h11D89>>,
     <<\h11D98, \h11D98>>, <<\h11DA0, \h11DA9>>, <<\h11EE0, \h11EF2>>, <<\h11FB0, \h11FB0>>, <<\h11FC0, \h11FD4>>,
     <<\h12000, \h12399>>, <<\h12400, \h1246E>>, <<\h12480, \h12543>>, <<\h12F90, \h12FF0>>, <<\h13000, \h1342E>>,
     <<\h14400, \h14646>>, <<\h16800, \h16A38>>, <<\h16A40, \h16A5E>>, <<\h16A60, \h16A69>>, <<\h16A70, \h16ABE>>,
     <<\h16AC0, \h16AC9>>, <<\h16AD0, \h16AED>>, <<\h16B00, \h16B2F>>, <<\h16B40, \h16B43>>, <<\h16B50, \h16B59>>,
     <<\h16B5B, \h16B61>>, <<\h16B63, \h16B77>>, <<\h16B7D, \h16B8F>>, <<\h16E40, \h16E96>>, <<\h16F00, \h16F4A>>,
     <<\h16F50, \h16F50>>, <<\h16F93, \h16F9F>>, <<\h16FE0, \h16FE1>>, <<\h16FE3, \h16FE3>>, <<\h17000, \h187F7>>,
     <<\h18800, \h18CD5>>, <<\h18D00, \h18D08>>, <<\h1AFF0, \h1AFF3>>, <<\h1AFF5, \h1AFFB>>, <<\h1AFFD, \h1AFFE>>,
     <<\h1B000, \h1B122>>, <<\h1B150, \h1B152>>, <<\h1B164, \h1B167>>, <<\h1B170, \h1B2FB>>, <<\h1BC00, \h1BC6A>>,
     <<\h1BC70, \h1BC7C>>, <<\h1BC80, \h1BC88>>, <<\h1BC90, \h1BC99>>, <<\h1D2E0, \h1D2F3>>, <<\h1D360, \h1D378>>,
     <<\h1D400, \h1D454>>, <<\h1D456, \h1D49C>>, <<\h1D49E, \h1D49F>>, <<\h1D4A2, \h1D4A2>>, <<\h1D4A5, \h1D4A6>>,
     <<\h1D4A9, \h1D4AC>>, <<\h1D4AE, \h1D4B9>>, <<\h1D4BB, \h1D4BB>>, <<\h1D4BD, \h1D4C3>>, <<\h1D4C5, \h1D505>>,
     <<\h1D507, \h1D50A>>, <<\h1D50D, \h1D514>>, <<\h1D516, \h1D51C>>, <<\h1D51E, \h1D539>>, <<\h1D53B, \h1D53E>>,
     <<\h1D540, \h1D544>>, <<\h1D546, \h1D546>>, <<\h1D54A, \h1D550>>, <<\h1D552, \h1D6A5>>, <<\h1D6A8, \h1D6C0>>,
     <<\h1D6C2, \h1D6DA>>, <<\h1D6DC, \h1D6FA>>, <<\h1D6FC, \h1D714>>, <<\h1D716, \h1D734>>, <<\h1D736, \h1D74E>>,
     <<\h1D750, \h1D76E>>, <<\h1D770, \h1D788>>, <<\h1D78A, \h1D7A8>>, <<\h1D7AA, \h1D7C2>>, <<\h1D7C4, \h1D7CB>>,
     <<\h1D7CE, \h1D7FF>>, <<\h1DF00, \h1DF1E>>, <<\h1E100, \h1E12C>>, <<\h1E137, \h1E13D>>, <<\h1E140, \h1E149>>,
     <<\h1E14E, \h1E14E>>, <<\h1E290, \h1E2AD>>, <<\h1E2C0, \h1E2EB>>, <<\h1E2F0, \h1E2F9>>, <<\h1E7E0, \h1E7E6>>,
     <<\h1E7E8, \h1E7EB>>, <<\h1E7ED, \h1E7EE>>, <<\h1E7F0, \h1E7FE>>, <<\h1E800, \h1E8C4>>, <<\h1E8C7, \h1E8CF>>,
     <<\h1E900, \h1E943>>, <<\h1E94B, \h1E94B>>, <<\h1E950, \h1E959>>, <<\h1EC71, \h1ECAB>>, <<\h1ECAD, \h1ECAF>>,
     <<\h1ECB1, \h1ECB4>>, <<\h1ED01, \h1ED2D>>, <<\h1ED2F, \h1ED3D>>, <<\h1EE00, \h1EE03>>, <<\h1EE05, \h1EE1F>>,
     <<\h1EE21, \h1EE22>>, <<\h1EE24, \h1EE24>>, <<\h1EE27, \h1EE27>>, <<\h1EE29, \h1EE32>>, <<\h1EE34, \h1EE37>>,
     <<\h1EE39, \h1EE39>>, <<\h1EE3B, \h1EE3B>>, <<\h1EE42, \h1EE42>>, <<\h1EE47, \h1EE47>>, <<\h1EE49, \h1EE49>>,
     <<\h1EE4B, \h1EE4B>>, <<\h1EE4D, \h1EE4F>>, <<\h1EE51, \h1EE52>>, <<\h1EE54, \h1EE54>>, <<\h1EE57, \h1EE57>>,
     <<\h1EE59, \h1EE59>>, <<\h1EE5B, \h1EE5B>>, <<\h1EE5D, \h1EE5D>>, <<\h1EE5F, \h1EE5F>>, <<\h1EE61, \h1EE62>>,
     <<\h1EE64, \h1EE64>>, <<\h1EE67, \h1EE6A>>, <<\h1EE6C, \h1EE72>>, <<\h1EE74, \h1EE77>>, <<\h1EE79, \h1EE7C>>,
     <<\h1EE7E, \h1EE7E>>, <<\h1EE80, \h1EE89>>, <<\h1EE8B, \h1EE9B>>, <<\h1EEA1, \h1EEA3>>, <<\h1EEA5, \h1EEA9>>,
     <<\h1EEAB, \h1EEBB>>, <<\h1F100, \h1F10C>>, <<\h1FBF0, \h1FBF9>>, <<\h20000, \h2A6DF>>, <<\h2A700, \h2B738>>,
     <<\h2B740, \h2B81D>>, <<\h2B820, \h2CEA1>>, <<\h2CEB0, \h2EBE0>>, <<\h2F800, \h2FA1D>>, <<\h30000, \h3134A>>
  >>
NonAsciiWordChars ==
    {Chr(n) : n \in UNION {WordRanges[i][1]..WordRanges[i][2] : i \in 1..Len(WordRanges)}}

\* The characters the regular expression class \w matches.
WordChars == AsciiLetters \cup DigitChars \cup {"_"} \cup NonAsciiWordChars

IsWordAt(s, i) == i >= 1 /\ i <= Len(s) /\ s[i] \in WordChars

\* \b holds before position i of s (positions 1..Len(s)+1).
IsBoundary(s, i) == IsWordAt(s, i - 1) # IsWordAt(s, i)

\* str(n) of an integer.
RECURSIVE NatStr(_)
NatStr(n) == IF n < 10 THEN <<Digits[n + 1]>> ELSE NatStr(n \div 10) \o <<Digits[(n % 10) + 1]>>
IntStr(n) == IF n < 0 THEN <<"-">> \o NatStr(-n) ELSE NatStr(n)

\* str(l) of a list of integers: "[1, 2]".
RECURSIVE ListBody(_)
ListBody(l) ==
    IF l = <<>> THEN <<>>
    ELSE IF Len(l) = 1 THEN IntStr(l[1])
    ELSE IntStr(l[1]) \o <<",", " ">> \o ListBody(Tail(l))
ListStr(l) == <<"[">> \o ListBody(l) \o <<"]">>

\* value_str of evaluate_expression: the three branches on the value's type.
ValueStr(value) ==
    IF value.k = "bool" THEN (IF value.v THEN <<"t", "r", "u", "e">> ELSE <<"f", "a", "l", "s", "e">>)
    ELSE IF value.k = "str" THEN <<"\"">> \o value.v \o <<"\"">>
    ELSE IF value.k = "int" THEN IntStr(value.v)
    ELSE IF value.k = "list" THEN ListStr(value.v)
    ELSE <<"N", "o", "n", "e">>

\* re.sub reads a replacement text as a template: a backslash starts an escape.
\* The escapes with a character of their own.
EscapeChars == {"a", "b", "f", "n", "r", "t", "v", "\\"}
EscapeOf(c) ==
    CASE c = "a" -> "<BEL>" [] c = "b" -> "<BS>" [] c = "f" -> "\f" [] c = "n" -> "\n"
      [] c = "r" -> "\r" [] c = "t" -> "\t" [] c = "v" -> "<VT>" [] c = "\\" -> "\\"

Ok(s) == [ok |-> TRUE, s |-> s]
Fail == [ok |-> FALSE, s |-> <<>>]
Cat(s, r) == IF r.ok THEN Ok(s \o r.s) ELSE Fail

OctDigits == {"0", "1", "2", "3", "4", "5", "6", "7"}
DigitVal(c) == CHOOSE n \in 0..9 : Digits[n + 1] = c
\* int(ds, 8) of a text of octal digits.
RECURSIVE OctVal(_)
OctVal(ds) ==
    IF ds = <<>> THEN 0 ELSE 8 * OctVal(SubSeq(ds, 1, Len(ds) - 1)) + DigitVal(ds[Len(ds)])

\* The white space int() strips from both ends of a text: the ASCII white
\* space, and the Unicode white space beyond ASCII, which it reads as a space.
\* (U+001C..U+001F are white space for str.isspace but not for int.)
Spaces ==
    {" ", "\t", "\n", "\r", "\f", "<VT>",
     "U+0085", "U+00A0", "U+1680", "U+2000", "U+2001", "U+2002", "U+2003", "U+2004",
     "U+2005", "U+2006", "U+2007", "U+2008", "U+2009", "U+200A", "U+2028", "U+2029",
     "U+202F", "U+205F", "U+3000"}
\* The decimal digits of value 0: int() reads a Unicode decimal digit as its value.
DecimalZeros ==
    {"0",
     "U+0660", "U+06F0", "U+07C0", "U+0966", "U+09E6", "U+0A66", "U+0AE6", "U+0B66",
     "U+0BE6", "U+0C66", "U+0CE6", "U+0D66", "U+0DE6", "U+0E50", "U+0ED0", "U+0F20",
     "U+1040", "U+1090", "U+17E0", "U+1810", "U+1946", "U+19D0", "U+1A80", "U+1A90",
     "U+1B50", "U+1BB0", "U+1C40", "U+1C50", "U+A620", "U+A8D0", "U+A900", "U+A9D0",
     "U+A9F0", "U+AA50", "U+ABF0", "U+FF10", "U+104A0", "U+10D30", "U+11066", "U+110F0",
     "U+11136", "U+111D0", "U+112F0", "U+11450", "U+114D0", "U+11650", "U+116C0", "U+11730",
     "U+118E0", "U+11950", "U+11C50", "U+11D50", "U+11DA0", "U+16A60", "U+16AC0", "U+16B50",
     "U+1D7CE", "U+1D7D8", "U+1D7E2", "U+1D7EC", "U+1D7F6", "U+1E140", "U+1E2F0", "U+1E950",
     "U+1FBF0"}
RECURSIVE StripLeft(_)
StripLeft(s) == IF s # <<>> /\ s[1] \in Spaces THEN StripLeft(Tail(s)) ELSE s
RECURSIVE StripRight(_)
StripRight(s) ==
    IF s # <<>> /\ s[Len(s)] \in Spaces THEN StripRight(SubSeq(s, 1, Len(s) - 1)) ELSE s

\* The most digits int() converts (sys.int_max_str_digits, as the interpreter
\* starts): a text of more digits raises ValueError, whatever its digits are.
IntMaxStrDigits == 4300

\* The name of \g<name> refers to group 0, the only group of the pattern:
\* int(name) is 0. int() takes white space at both ends, one sign, and decimal
\* digits with single underscores between them, IntMaxStrDigits digits at
\* most (the underscores, the sign and the white space do not count). (A name
\* that is an identifier or another number raises.)
IsGroupZero(name) ==
    LET t == StripRight(StripLeft(name))
        d == IF t # <<>> /\ t[1] \in {"+", "-"} THEN Tail(t) ELSE t
    IN  /\ d # <<>>
        /\ d[1] \in DecimalZeros
        /\ d[Len(d)] \in DecimalZeros
        /\ \A i \in 1..Len(d) : d[i] \in DecimalZeros \cup {"_"}
        /\ \A i \in 1..Len(d) - 1 : ~(d[i] = "_" /\ d[i + 1] = "_")
        /\ Cardinality({i \in 1..Len(d) : d[i] # "_"}) <= IntMaxStrDigits

\* The template t expanded for a match of a pattern without groups that
\* matched the text whole, or Fail where re.sub raises: a backslash at the end,
\* a reference to a group other than 0 (\1, \12, \g<1>, \g<name>), a malformed
\* \g, an octal escape above \377, an unknown escape of an ASCII letter.
RECURSIVE ExpandTemplate(_, _)
ExpandTemplate(t, whole) ==
    IF t = <<>> THEN Ok(<<>>)
    ELSE IF t[1] # "\\" THEN Cat(<<t[1]>>, ExpandTemplate(Tail(t), whole))
    ELSE IF Len(t) = 1 THEN Fail
    ELSE LET c == t[2]
             from(n) == SubSeq(t, n, Len(t))
             oct(i) == i <= Len(t) /\ t[i] \in OctDigits
         IN  IF c = "g" THEN
                 IF Len(t) < 3 \/ t[3] # "<" THEN Fail
                 ELSE LET closes == {i \in 4..Len(t) : t[i] = ">"} IN
                      IF closes = {} THEN Fail
                      ELSE LET e == CHOOSE i \in closes : \A j \in closes : i <= j
                           IN  IF IsGroupZero(SubSeq(t, 4, e - 1))
                               THEN Cat(whole, ExpandTemplate(from(e + 1), whole))
                               ELSE Fail
             ELSE IF c = "0" THEN
                 LET n == IF oct(3) THEN (IF oct(4) THEN 3 ELSE 2) ELSE 1
                 IN  Cat(<<Chr(OctVal(SubSeq(t, 2, n + 1)) % 256)>>,
                         ExpandTemplate(from(n + 2), whole))
             ELSE IF c \in DigitChars THEN
                 IF oct(2) /\ oct(3) /\ oct(4) /\ OctVal(SubSeq(t, 2, 4)) <= 255
                 THEN Cat(<<Chr(OctVal(SubSeq(t, 2, 4)))>>, ExpandTemplate(from(5), whole))
                 ELSE Fail
             ELSE IF c \in EscapeChars THEN Cat(<<EscapeOf(c)>>, ExpandTemplate(from(3), whole))
             ELSE IF c \in AsciiLetters THEN Fail
             ELSE Cat(<<"\\", c>>, ExpandTemplate(from(3), whole))

\* The pattern \b name \b matches at position i of s.
MatchAt(s, name, i) ==
    /\ i + Len(name) - 1 <= Len(s)
    /\ SubSeq(s, i, i + Len(name) - 1) = name
    /\ IsBoundary(s, i)
    /\ IsBoundary(s, i + Len(name))

\* re.sub(r'\b' + re.escape(name) + r'\b', <expanded template>, s) from position i on:
\* leftmost non-overlapping matches, left to right.
RECURSIVE SubFrom(_, _, _, _)
SubFrom(s, name, lit, i) ==
    IF MatchAt(s, name, i) THEN
        IF Len(name) > 0 THEN lit \o SubFrom(s, name, lit, i + Len(name))
        ELSE IF i <= Len(s) THEN lit \o <<s[i]>> \o SubFrom(s, name, lit, i + 1)
        ELSE lit
    ELSE IF i > Len(s) THEN <<>>
    ELSE <<s[i]>> \o SubFrom(s, name, lit, i + 1)

ReSub(name, repl, s) ==
    LET t == ExpandTemplate(repl, name) IN
    IF t.ok THEN Ok(SubFrom(s, name, t.s, 1)) ELSE Fail

\* sorted(keys, key=len, reverse=True): a stable sort, so names of equal length
\* keep the dict's insertion order.
RECURSIVE InsertByLen(_, _)
InsertByLen(sorted, key) ==
    IF sorted = <<>> THEN <<key>>
    ELSE IF Len(sorted[1]) >= Len(key) THEN <<sorted[1]>> \o InsertByLen(Tail(sorted), key)
    ELSE <<key>> \o sorted
SortedAsGiven(keys) == keys
RECURSIVE SortedByLen(_)
SortedByLen(keys) ==
    IF keys = <<>> THEN <<>>
    ELSE InsertByLen(SortedByLen(SubSeq(keys, 1, Len(keys) - 1)), keys[Len(keys)])

Keys(items) == [i \in 1..Len(items) |-> items[i].key]
Lookup(items, key) == items[CHOOSE i \in 1..Len(items) : items[i].key = key].val

\* The loop of evaluate_expression over the names still to process.
RECURSIVE EvalLoop(_, _, _)
EvalLoop(evaluated, names, items) ==
    IF names = <<>> THEN Ok(evaluated)
    ELSE LET r == ReSub(names[1], ValueStr(Lookup(items, names[1])), evaluated) IN
         IF r.ok THEN EvalLoop(r.s, Tail(names), items) ELSE Fail

\* evaluate_expression(expr, facts_dict), facts_dict given by its items.
evaluate_expression(expr, items) == EvalLoop(expr, SortedByLen(Keys(items)), items)

\* ---------------------------------------------------------------- session
Contexts == DOMAIN ctx

NoCall == [op |-> "none", c |-> 0, trail |-> None, raised |-> FALSE]
Returned(op, c, trail) == [op |-> op, c |-> c, trail |-> trail, raised |-> FALSE]
RaisedSwallowed(op, c) == [op |-> op, c |-> c, trail |-> None, raised |-> FALSE]
Raised(op, c) == [op |-> op, c |-> c, trail |-> None, raised |-> TRUE]

NoHeld == [facts |-> None, rule_results |-> None, outputs |-> None, final_result |-> None]

\* No run of evaluate_expression on its own, no concurrent unit.
NoSub == [pc |-> "none"]
NoUnits == <<>>

Init ==
    /\ ctx = (1 :> None)
    /\ trails = <<>>
    /\ heap = <<>>
    /\ held = NoHeld
    /\ ret = NoCall
    /\ muts = 0
    /\ sub = NoSub
    /\ units = NoUnits

\* The number of traces stored in all trails.
RECURSIVE TracesIn(_)
TracesIn(ts) == IF ts = <<>> THEN 0 ELSE Len(ts[1]) + TracesIn(Tail(ts))
TotalTraces == TracesIn(trails)

\* AuditTrail(): traces defaults to a new empty list.
AuditTrail == <<>>

\* _audit_context.get() in context c.
ActiveTrailOfAny(c) == IF ctx[c] = None /\ trails # <<>> THEN Len(trails) ELSE ctx[c]
ActiveTrail(c) == ctx[c]

\* The trail start_audit sets in _audit_context and returns: the AuditTrail
\* object it has just created, the last of trails'.
StartTrailKeepActive(c) == IF ctx[c] # None THEN ctx[c] ELSE Len(trails) + 1
StartTrailOldest(c) == 1
StartTrail(c) == Len(trails) + 1

\* start_audit()
StartAudit(c) ==
    /\ Len(trails) + TotalTraces < MaxObjs
    /\ trails' = Append(trails, AuditTrail)
    /\ ctx' = [ctx EXCEPT ![c] = StartTrail(c)]
    /\ ret' = Returned("start_audit", c, StartTrail(c))
    /\ UNCHANGED <<heap, held, muts, sub, units>>

\* The value stop_audit sets in _audit_context.
StopValueKeep(c) == ctx[c]
StopValue(c) == None

\* The trail stop_audit returns: the one it read before it reset the variable.
StopTrailAfterReset(c) == StopValue(c)
StopTrail(c) == ActiveTrail(c)

\* stop_audit()
StopAudit(c) ==
    /\ LET trail == StopTrail(c) IN
        /\ ctx' = [ctx EXCEPT ![c] = StopValue(c)]
        /\ ret' = Returned("stop_audit", c, trail)
    /\ UNCHANGED <<trails, heap, held, muts, sub, units>>

\* is_auditing(): a query, the value it returns in context c.
is_auditing_any(c) == \E d \in Contexts : ctx[d] # None
is_auditing(c) == ActiveTrail(c) # None

\* A new execution context made as a copy of context c (contextvars.copy_context,
\* as done for every asyncio task): it starts with c's value of _audit_context.
CopyContext(c) ==
    /\ Cardinality(Contexts) < MaxCtx
    /\ LET d == Cardinality(Contexts) + 1 IN
        /\ ctx' = ctx @@ (d :> ctx[c])
    /\ UNCHANGED <<trails, heap, held, ret, muts, sub, units>>

\* A new empty execution context (contextvars.Context(), a new thread): the
\* variable has its default, None.
NewContext ==
    /\ Cardinality(Contexts) < MaxCtx
    /\ LET d == Cardinality(Contexts) + 1 IN
        /\ ctx' = ctx @@ (d :> None)
    /\ UNCHANGED <<trails, heap, held, ret, muts, sub, units>>

\* ---------------------------------------------------------------- log_decision
\* The argument lists callers pass. An optional argument is <<>> when it is
\* left out (None) and <<l>> when the list l is passed. outputs and final_result
\* are a list of output records, given by their index in recs, or a dict.
ListOf(idxs) == [cls |-> "list", v |-> idxs]
DictOf(items) == [cls |-> "dict", v |-> items]
T(title, facts, rule_results, recs, outputs, final_result, ie, oe, ic, oc) ==
    [table_title |-> title, facts |-> facts, rule_results |-> rule_results, recs |-> recs,
     outputs |-> outputs, final_result |-> final_result, input_expressions |-> ie,
     output_expressions |-> oe, input_col_ids |-> ic, output_col_ids |-> oc]

RecR(n) == <<Entry(<<"r">>, VInt(n))>>

ArgSamples ==
    { T("T1", <<Entry(<<"x">>, VBool(TRUE))>>, <<TRUE, FALSE>>, <<RecR(1)>>, ListOf(<<1>>), ListOf(<<1>>),
        <<>>, << <<>> >>, << <<>> >>, <<>>),
      T("T2", <<Entry(<<"p">>, VInt(5)), Entry(<<"p", "q">>, VStr(<<"a", "\"", "b">>)),
              Entry(<<"l">>, VList(<<1, 2>>))>>,
        <<FALSE, TRUE, TRUE>>, <<RecR(1), RecR(2)>>, ListOf(<<1, 2>>), ListOf(<<2>>),
        << <<VRow(<< <<"p", " ", ">", " ", "1">> >>)>> >>,
        << <<VRow(<< <<"p", "q", " ", "-", " ", "(", "p">>, <<"l">> >>), VStr(<<"p">>)>> >>,
        << <<VStr(<<"p">>)>> >>, << <<VStr(<<"r">>)>> >>),
      T("T3", <<Entry(<<"p">>, VStr(<<"C", ":", "\\", "d">>))>>, <<TRUE>>, <<RecR(1)>>, ListOf(<<1>>), ListOf(<<1>>),
        <<>>, << <<VRow(<< <<"p">> >>)>> >>, <<>>, <<>>),
      T("T4", <<Entry(<<"p">>, VStr(<<"C", ":", "\\", "d">>))>>, <<>>, <<>>, DictOf(RecR(1)), ListOf(<<>>),
        <<>>, <<>>, <<>>, <<>>) }

\* The caller's argument objects, allocated on heap h before the call:
\* the output records first, then the four containers, then the optional lists passed.
Refs(base, idxs) == [i \in 1..Len(idxs) |-> VRef(base + idxs[i])]
Bools(bs) == [i \in 1..Len(bs) |-> VBool(bs[i])]
ArgObj(base, x) == IF x.cls = "list" THEN ListObj(Refs(base, x.v)) ELSE DictObj(x.v)

BuildArgs(h, a) ==
    LET base == NewId(h) - 1
        n == Len(a.recs)
        opts == <<a.input_expressions, a.output_expressions, a.input_col_ids, a.output_col_ids>>
        given == [i \in 1..4 |-> opts[i] # <<>>]
        \* identity of the i-th optional list, None when it is left out
        optId(i) == IF given[i]
                    THEN base + n + 4 + Cardinality({j \in 1..i : given[j]})
                    ELSE None
        passed == [i \in 1..4 |-> IF given[i] THEN <<ListObj(opts[i][1])>> ELSE <<>>]
    IN  [heap |-> AllocAll(h,
                    [i \in 1..n |-> DictObj(a.recs[i])]
                    \o <<DictObj(a.facts), ListObj(Bools(a.rule_results)),
                         ArgObj(base, a.outputs), ArgObj(base, a.final_result)>>
                    \o passed[1] \o passed[2] \o passed[3] \o passed[4]),
         table_title |-> a.table_title,
         facts |-> base + n + 1,
         rule_results |-> base + n + 2,
         outputs |-> base + n + 3,
         final_result |-> base + n + 4,
         input_expressions |-> optId(1),
         output_expressions |-> optId(2),
         input_col_ids |-> optId(3),
         output_col_ids |-> optId(4)]

\* Python truth of a value.
Truthy(v) ==
    CASE v.k = "bool" -> v.v
      [] v.k = "int" -> v.v # 0
      [] v.k \in {"str", "list", "row"} -> v.v # <<>>
      [] v.k = "none" -> FALSE
      [] OTHER -> TRUE

\* [i for i, matched in enumerate(rule_results) if matched], indices from 0.
RECURSIVE MatchedFrom(_, _)
MatchedFrom(items, i) ==
    IF i > Len(items) THEN <<>>
    ELSE (IF Truthy(items[i]) THEN <<i - 1>> ELSE <<>>) \o MatchedFrom(items, i + 1)
MatchedRules(items) == MatchedFrom(items, 1)

\* x.copy() of a dict or list x: a new object with the same entries.
Copy(h, o) == VOwn(h[o].items)

\* x.copy() if isinstance(x, list) else x
CopyIfList(h, o) == IF h[o].cls = "list" THEN Copy(h, o) ELSE VRef(o)

\* x or []: x itself when it is a non-empty list, else a new empty list.
OrEmpty(h, x) == IF x # None /\ h[x].items # <<>> THEN VRef(x) ELSE VOwn(<<>>)

\* [evaluate_expression(expr, facts) for expr in (row if isinstance(row, list) else [row])]
RowExprsFirst(row) == IF row.k = "row" THEN SubSeq(row.v, 1, 1) ELSE <<row.v>>
RowExprs(row) == IF row.k = "row" THEN row.v ELSE <<row.v>>
RECURSIVE EvalRow(_, _)
EvalRow(exprs, items) ==
    IF exprs = <<>> THEN Ok(<<>>)
    ELSE LET e == evaluate_expression(exprs[1], items)
             r == EvalRow(Tail(exprs), items)
         IN  IF e.ok /\ r.ok THEN Ok(<<e.s>> \o r.s) ELSE Fail
RECURSIVE EvalRows(_, _)
EvalRows(rows, items) ==
    IF rows = <<>> THEN Ok(<<>>)
    ELSE LET e == EvalRow(RowExprs(rows[1]), items)
             r == EvalRows(Tail(rows), items)
         IN  IF e.ok /\ r.ok THEN Ok(<<e.s>> \o r.s) ELSE Fail

\* The evaluated_outputs argument of the DecisionTrace constructor.
EvaluatedOutputs(h, output_expressions, facts) ==
    IF output_expressions # None /\ h[output_expressions].items # <<>>
    THEN EvalRows(h[output_expressions].items, h[facts].items)
    ELSE Ok(<<>>)

\* The DecisionTrace log_decision builds on heap h for the arguments g (object
\* identities); ok is FALSE when building it raises.
DecisionTrace(h, g) ==
    LET ev == EvaluatedOutputs(h, g.output_expressions, g.facts)
    IN  [ok |-> ev.ok,
         trace |-> [table_title |-> g.table_title,
                    facts |-> Copy(h, g.facts),
                    matched_rules |-> MatchedRules(h[g.rule_results].items),
                    rule_results |-> Copy(h, g.rule_results),
                    outputs |-> CopyIfList(h, g.outputs),
                    final_result |-> CopyIfList(h, g.final_result),
                    input_expressions |-> OrEmpty(h, g.input_expressions),
                    output_expressions |-> OrEmpty(h, g.output_expressions),
                    input_col_ids |-> OrEmpty(h, g.input_col_ids),
                    output_col_ids |-> OrEmpty(h, g.output_col_ids),
                    evaluated_outputs |-> ev.s]]

\* AuditTrail.add_trace: self.traces.append(trace)
add_trace(traces, trace) == Append(traces, trace)

Held(g) == [facts |-> g.facts, rule_results |-> g.rule_results,
            outputs |-> g.outputs, final_result |-> g.final_result]

\* The objects that stay alive: those a trace or the caller refers to, and
\* the objects these refer to. The others are freed.
ContainerFields ==
    {"facts", "rule_results", "outputs", "final_result", "input_expressions",
     "output_expressions", "input_col_ids", "output_col_ids"}
TraceRefs(tr) ==
    UNION {IF tr[f].k = "ref" THEN {tr[f].v} ELSE RefsOf(tr[f].v) : f \in ContainerFields}
Roots(ts, hd) ==
    UNION {UNION {TraceRefs(ts[t][i]) : i \in 1..Len(ts[t])} : t \in 1..Len(ts)}
    \cup ({hd.facts, hd.rule_results, hd.outputs, hd.final_result} \ {None})
RECURSIVE Reach(_, _)
Reach(h, S) ==
    LET R == S \cup UNION {RefsOf(h[o].items) : o \in S}
    IN  IF R = S THEN S ELSE Reach(h, R)
Collect(h, ts, hd) == [o \in Reach(h, Roots(ts, hd)) |-> h[o]]

\* log_decision(...) called in context c with the argument list a.
LogDecision(c, a) ==
    /\ LET g == BuildArgs(heap, a)
           trail == ActiveTrail(c)
           t == DecisionTrace(g.heap, g)
       IN  IF trail = None
           THEN /\ ret' = Returned("log_decision", c, None)
                /\ UNCHANGED <<heap, held, trails>>
           ELSE IF ~t.ok
           THEN /\ ret' = Raised("log_decision", c)
                /\ UNCHANGED <<heap, held, trails>>
           ELSE /\ Len(trails) + TotalTraces < MaxObjs
                /\ trails' = [trails EXCEPT ![trail] = add_trace(@, t.trace)]
                /\ held' = Held(g)
                /\ heap' = Collect(g.heap, trails', held')
                /\ ret' = Returned("log_decision", c, None)
    /\ UNCHANGED <<ctx, muts, sub, units>>

\* DecisionTrace(table_title, facts, matched_rules, rule_results, outputs,
\* final_result) constructed by a caller: the dataclass stores the arguments as
\* they are given, here new objects that only the trace refers to, and the five
\* fields left out get their default, a new empty list.
NewTrace(table_title, facts, matched_rules, rule_results, outputs, final_result) ==
    [table_title |-> table_title,
     facts |-> VOwn(facts),
     matched_rules |-> matched_rules,
     rule_results |-> VOwn(rule_results),
     outputs |-> VOwn(outputs),
     final_result |-> VOwn(final_result),
     input_expressions |-> VOwn(<<>>),
     output_expressions |-> VOwn(<<>>),
     input_col_ids |-> VOwn(<<>>),
     output_col_ids |-> VOwn(<<>>),
     evaluated_outputs |-> <<>>]

\* The traces callers construct themselves: the constructor checks nothing, so
\* matched_rules is whatever the caller passes, here [0] with rule_results [False].
TraceSamples ==
    { NewTrace("E2", <<>>, <<0>>, <<VBool(FALSE)>>, <<>>, <<>>) }

\* The number of traces in the trails ts that callers constructed themselves.
RECURSIVE DirectIn(_)
DirectIn(ts) ==
    IF ts = <<>> THEN 0
    ELSE Cardinality({i \in 1..Len(ts[1]) : ts[1][i] \in TraceSamples}) + DirectIn(Tail(ts))

\* trail.add_trace(trace) called in context c by a holder of the AuditTrail
\* object t, which start_audit returned: the method is public and appends
\* whether or not the trail is active anywhere.
AddTrace(c, t, trace) ==
    /\ Len(trails) + TotalTraces < MaxObjs
    /\ DirectIn(trails) < MaxDirect
    /\ trails' = [trails EXCEPT ![t] = add_trace(@, trace)]
    /\ ret' = Returned("add_trace", c, None)
    /\ UNCHANGED <<ctx, heap, held, muts, sub, units>>

\* ---------------------------------------------------------------- the caller's objects
\* The objects the caller of the last log_decision still holds: the four
\* containers it passed and the output records listed in them.
HeldObjects ==
    LET cs == {held.facts, held.rule_results, held.outputs, held.final_result} \ {None}
    IN  cs \cup UNION {RefsOf(heap[o].items) : o \in cs}

MutationKinds == {"set", "add", "del"}

\* The entry a caller writes into object o: a fact or column value, a rule result,
\* an output.
NewKey == <<"z">>
NewEntry(o) ==
    IF heap[o].cls = "dict" THEN Entry(NewKey, VInt(0))
    ELSE IF o = held.rule_results THEN VBool(TRUE)
    ELSE VNone
Reassigned(o, e) ==
    IF heap[o].cls = "dict" THEN Entry(e.key, VInt(0))
    ELSE IF o = held.rule_results THEN VBool(~e.v)
    ELSE VNone

\* The caller reassigns the first entry of o, adds an entry to o or removes
\* the last entry of o.
Mutated(o, m) ==
    LET items == heap[o].items IN
    CASE m = "set" -> [heap EXCEPT ![o].items[1] = Reassigned(o, items[1])]
      [] m = "add" -> [heap EXCEPT ![o].items = Append(items, NewEntry(o))]
      [] m = "del" -> [heap EXCEPT ![o].items = SubSeq(items, 1, Len(items) - 1)]

Mutate(o, m) ==
    /\ muts < MaxMuts
    /\ muts' = muts + 1
    /\ m \in {"set", "del"} => heap[o].items # <<>>
    /\ (m = "add" /\ heap[o].cls = "dict") =>
           \A i \in 1..Len(heap[o].items) : heap[o].items[i].key # NewKey
    /\ heap' = Collect(Mutated(o, m), trails, held)
    /\ UNCHANGED <<ctx, trails, held, ret, sub, units>>

\* The session operations called from any execution context, and new contexts.
Next ==
    \/ \E c \in Contexts : StartAudit(c)
    \/ \E c \in Contexts : StopAudit(c)
    \/ \E c \in Contexts, a \in ArgSamples : LogDecision(c, a)
    \/ \E c \in Contexts, t \in 1..Len(trails), trace \in TraceSamples : AddTrace(c, t, trace)
    \/ \E c \in Contexts : CopyContext(c)
    \/ NewContext

Spec == Init /\ [][Next]_vars

\* One execution context whose caller also mutates the objects it passed.
NextCaller ==
    \/ StartAudit(1)
    \/ StopAudit(1)
    \/ \E a \in ArgSamples : LogDecision(1, a)
    \/ \E t \in 1..Len(trails), trace \in TraceSamples : AddTrace(1, t, trace)
    \/ \E o \in HeldObjects, m \in MutationKinds : Mutate(o, m)

SpecCaller == Init /\ [][NextCaller]_vars

\* ---------------------------------------------------------------- evaluate_expression, step by step
\* A run of evaluate_expression(expr, facts_dict) on its own: sub holds the two
\* arguments, the position in the function and the locals evaluated and the
\* names the for loop has still to visit.
MaxFacts == 2

SubNames == {<<"p">>, <<"q">>, <<"p", "q">>}
SubValues ==
    {VBool(TRUE), VInt(7), VStr(<<"q">>), VStr(<<"\\", "n">>), VStr(<<"\\", "d">>),
     VStr(<<"\\", "g", "<", "0", ">">>), VStr(<<"\\", "g", "<", "U+2003", "U+0660", ">">>)}
SubExprs ==
    { <<"p", "q", " ", "-", " ", "p">>,
      <<"u", " ", "+", " ", "1">>,
      <<"p", "_", "q", ".", "p">>,
      <<"q", "(", "p", ")">>,
      <<"p", "U+00E9", " ", "+", " ", "p">>,
      <<"p", "U+03B1", " ", "+", " ", "p">> }

\* The fact mappings of n entries, as their items in insertion order.
FactItems(n) ==
    {f \in [1..n -> [key : SubNames, val : SubValues]] :
        \A i \in 1..n, j \in 1..n : i # j => f[i].key # f[j].key}
SubFacts == UNION {FactItems(n) : n \in 0..MaxFacts}

SubCall(expr, items) ==
    [pc |-> "call", expr |-> expr, facts_dict |-> items, var_names |-> <<>>, evaluated |-> <<>>]

sessionVars == <<ctx, trails, heap, held, ret, muts, units>>

InitSub ==
    /\ ctx = (1 :> None)
    /\ trails = <<>>
    /\ heap = <<>>
    /\ held = NoHeld
    /\ ret = NoCall
    /\ muts = 0
    /\ units = NoUnits
    /\ sub \in {SubCall(expr, items) : expr \in SubExprs, items \in SubFacts}

\* evaluated = expr, and the for statement evaluates sorted(...) once.
EvalEnter ==
    /\ sub.pc = "call"
    /\ sub' = [sub EXCEPT !.pc = "loop",
                          !.evaluated = sub.expr,
                          !.var_names = SortedByLen(Keys(sub.facts_dict))]
    /\ UNCHANGED sessionVars

\* One iteration of the loop: value_str of the next name and re.sub on evaluated.
EvalPass ==
    /\ sub.pc = "loop"
    /\ sub.var_names # <<>>
    /\ LET var_name == sub.var_names[1]
           value == Lookup(sub.facts_dict, var_name)
           r == ReSub(var_name, ValueStr(value), sub.evaluated)
       IN  IF r.ok
           THEN sub' = [sub EXCEPT !.evaluated = r.s, !.var_names = Tail(sub.var_names)]
           ELSE sub' = [sub EXCEPT !.pc = "raised"]
    /\ UNCHANGED sessionVars

\* return evaluated
EvalReturn ==
    /\ sub.pc = "loop"
    /\ sub.var_names = <<>>
    /\ sub' = [sub EXCEPT !.pc = "done"]
    /\ UNCHANGED sessionVars

NextSub ==
    \/ EvalEnter
    \/ EvalPass
    \/ EvalReturn

SpecSub == InitSub /\ [][NextSub]_vars

\* The run has ended: it returned evaluated or it raised.
SubEnded == sub.pc \in {"done", "raised"}

\* ---------------------------------------------------------------- concurrent log_decision
\* Threads that run in copies of the context in which start_audit() was called:
\* each has its own _audit_context, all with the same AuditTrail object. A
\* thread can be preempted anywhere in log_decision; the steps that touch what
\* the threads share are the read of the trail (line 73) and the append
\* (line 116). list.append is one atomic operation of the interpreter, and
\* building the trace (lines 78-114) touches only the call's own arguments, so
\* it is taken together with the append.
MaxUnits == 2
MaxCalls == 2

Units == DOMAIN units

\* A unit outside log_decision; logged lists the table titles of its finished calls.
UnitIdle(logged) == [pc |-> "idle", trail |-> None, args |-> <<>>, logged |-> logged]

InitConc ==
    /\ trails = <<AuditTrail>>
    /\ ctx = [u \in 1..MaxUnits |-> 1]
    /\ heap = <<>>
    /\ held = NoHeld
    /\ ret = NoCall
    /\ muts = 0
    /\ sub = NoSub
    /\ units = [u \in 1..MaxUnits |-> UnitIdle(<<>>)]

Entered == {u \in Units : units[u].pc = "entered"}

\* Unit u calls log_decision with the argument list a: lines 73-75.
LogEnter(u, a) ==
    /\ units[u].pc = "idle"
    /\ Len(units[u].logged) < MaxCalls
    /\ Len(trails) + TotalTraces + Cardinality(Entered) < MaxObjs
    /\ LET trail == ActiveTrail(u) IN
        IF trail = None
        THEN /\ units' = [units EXCEPT ![u] = UnitIdle(Append(units[u].logged, a.table_title))]
             /\ ret' = Returned("log_decision", u, None)
        ELSE /\ units' = [units EXCEPT ![u] = [pc |-> "entered", trail |-> trail, args |-> <<a>>,
                                                logged |-> units[u].logged]]
             /\ ret' = ret
    /\ UNCHANGED <<ctx, trails, heap, held, muts, sub>>

\* Unit u goes on to the end of log_decision: lines 78-116, the trace built and
\* appended to the trail it read at line 73, or the error of building it raised.
LogRecord(u) ==
    /\ units[u].pc = "entered"
    /\ LET a == units[u].args[1]
           g == BuildArgs(heap, a)
           t == DecisionTrace(g.heap, g)
       IN  /\ units' = [units EXCEPT ![u] = UnitIdle(Append(units[u].logged, a.table_title))]
           /\ IF ~t.ok
              THEN /\ ret' = Raised("log_decision", u)
                   /\ UNCHANGED <<heap, held, trails>>
              ELSE /\ trails' = [trails EXCEPT ![units[u].trail] = add_trace(@, t.trace)]
                   /\ held' = Held(g)
                   /\ heap' = Collect(g.heap, trails', held')
                   /\ ret' = Returned("log_decision", u, None)
    /\ UNCHANGED <<ctx, muts, sub>>

NextConc ==
    \/ \E u \in Units, a \in ArgSamples : LogEnter(u, a)
    \/ \E u \in Units : LogRecord(u)

SpecConc == InitConc /\ [][NextConc]_vars

\* ---------------------------------------------------------------- properties
\* A step in which op was called in context c: ret' records that call, and the
\* step neither made a context nor was a mutation by a caller (these leave ret alone).
Step(op, c) ==
    /\ ret'.op = op
    /\ ret'.c = c
    /\ DOMAIN ctx' = DOMAIN ctx
    /\ muts' = muts
StartStep(c) == Step("start_audit", c)
StopStep(c) == Step("stop_audit", c)
LogStep(c) == Step("log_decision", c)
AddStep(c) == Step("add_trace", c)
Call(c) == StartStep(c) \/ StopStep(c) \/ LogStep(c)

\* C1: in each context, is_auditing() is true right after start_audit() and
\* false right after stop_audit(), log_decision leaves its value as it was,
\* and whenever it is true the context's active trail is a trail that exists.
C1_IsAuditing ==
    [][\A c \in Contexts :
        /\ StartStep(c) => is_auditing(c)'
        /\ StopStep(c) => ~is_auditing(c)'
        /\ LogStep(c) => (is_auditing(c)' <=> is_auditing(c))
        /\ is_auditing(c)' => ctx'[c] \in 1..Len(trails')]_vars

\* A trail was started twice and stopped in one context while another
\* context still has a trail active.
C1_Witness ==
    /\ ret.op = "stop_audit"
    /\ ret.trail # None
    /\ ~is_auditing(ret.c)
    /\ \E d \in Contexts : is_auditing(d)

\* C2: log_decision called in a context with no active trail changes no trail,
\* no object and no context's active trail, and returns without raising,
\* whatever its arguments.
C2_NoTrailNoOp ==
    [][\A c \in Contexts :
        (ctx[c] = None /\ LogStep(c)) =>
            /\ trails' = trails
            /\ heap' = heap
            /\ ctx' = ctx
            /\ ~ret'.raised]_vars

\* log_decision has returned in a context with no active trail while a trail
\* with a trace exists and another context has a trail active.
C2_Witness ==
    /\ ret.op = "log_decision"
    /\ ~ret.raised
    /\ ctx[ret.c] = None
    /\ \E t \in 1..Len(trails) : trails[t] # <<>>
    /\ \E d \in Contexts : ctx[d] # None

\* C5: stop_audit() never raises, returns the trail that was active in its
\* context (None when there was none) and leaves the context without an active
\* trail; called right after a stop_audit() in the same context it returns None.
C5_StopAudit ==
    [][\A c \in Contexts :
        StopStep(c) =>
            /\ ~ret'.raised
            /\ ret'.trail = ctx[c]
            /\ ctx'[c] = None
            /\ (ret.op = "stop_audit" /\ ret.c = c) => ret'.trail = None]_vars

\* stop_audit() returned None in the only context, where a trail had been started.
C5_Witness ==
    /\ ret = Returned("stop_audit", 1, None)
    /\ Contexts = {1}
    /\ trails # <<>>
    /\ ctx[1] = None

\* Trail t as a step leaves it: unchanged, or extended at its end by one trace.
Extended(t) ==
    /\ Len(trails'[t]) = Len(trails[t]) + 1
    /\ SubSeq(trails'[t], 1, Len(trails[t])) = trails[t]

\* C9: a trail is append-only. Every step leaves the trace sequence of every
\* trail unchanged or extends it at its end by exactly one trace, by one
\* log_decision call in a context where that trail is active: no operation
\* removes, reorders, replaces or deduplicates traces, and the order of the
\* traces is the order of the evaluations logged.
C9_AppendOnly ==
    [][\A t \in 1..Len(trails) :
        /\ t \in 1..Len(trails')
        /\ \/ trails'[t] = trails[t]
           \/ Extended(t) /\ \E c \in Contexts : ctx[c] = t /\ LogStep(c)]_vars

\* C10: start_audit() creates a trail that did not exist before and has no
\* traces, makes it the active trail of its context and returns it, without an
\* error, also when a trail was active; the trails that existed keep their
\* traces, and a log_decision call changes no trail but the active one of its context.
C10_StartAudit ==
    [][\A c \in Contexts :
        /\ StartStep(c) =>
            /\ ~ret'.raised
            /\ ret'.trail \notin 1..Len(trails)
            /\ ret'.trail \in 1..Len(trails')
            /\ trails'[ret'.trail] = <<>>
            /\ ctx'[c] = ret'.trail
            /\ \A t \in 1..Len(trails) : trails'[t] = trails[t]
        /\ LogStep(c) =>
            \A t \in 1..Len(trails) : t # ctx[c] => trails'[t] = trails[t]]_vars

\* In the only context, a second trail is active and has a trace, the first one,
\* active nowhere, still has its own.
C10_Witness ==
    /\ Contexts = {1}
    /\ Len(trails) = 2
    /\ ctx[1] = 2
    /\ Len(trails[1]) = 1
    /\ Len(trails[2]) = 1
    /\ trails[1][1].table_title # trails[2][1].table_title

\* The indices, from 0, of the true entries of a rule_results list.
TrueIndices(rr) == {j - 1 : j \in {i \in 1..Len(rr) : Truthy(rr[i])}}

\* C4: in every reachable state, every trace of every trail has matched_rules
\* equal to the ascending list of the indices at which its rule_results is true.
\* (It holds of the traces log_decision stores; a trace constructed by a caller
\* and appended with add_trace carries the matched_rules the caller gave it.)
C4_MatchedRules ==
    \A t \in 1..Len(trails) : \A i \in 1..Len(trails[t]) :
        LET tr == trails[t][i]
            rr == Deref(heap, tr.rule_results)
            mr == tr.matched_rules
        IN  /\ \A j \in 1..Len(mr) - 1 : mr[j] < mr[j + 1]
            /\ {mr[j] : j \in 1..Len(mr)} = TrueIndices(rr)

\* The ascending list of the indices, from 0, at which the booleans bs are true.
IndicesOfTrue(bs) == SelectSeq([i \in 1..Len(bs) |-> i - 1], LAMBDA j : bs[j + 1])

\* C3: start_audit(), n calls of log_decision in the same context, stop_audit():
\* the trail start_audit returns is the active one and has no trace, every
\* log_decision call with a trail active adds exactly one trace at its end,
\* carrying the call's table_title and matched rules, and stop_audit returns
\* that very trail; so the trail returned holds the n traces of the n calls.
C3_StartLogStop ==
    [][\A c \in Contexts :
        /\ StartStep(c) => ctx'[c] = ret'.trail /\ trails'[ret'.trail] = <<>>
        /\ \A a \in ArgSamples :
            (ctx[c] # None /\ LogDecision(c, a)) =>
                /\ ctx'[c] = ctx[c]
                /\ Extended(ctx[c])
                /\ LET tr == trails'[ctx[c]][Len(trails'[ctx[c]])]
                   IN  /\ tr.table_title = a.table_title
                       /\ tr.matched_rules = IndicesOfTrue(a.rule_results)
        /\ StopStep(c) => ret'.trail = ctx[c]]_vars

\* C6: a call made in one context never appends to, returns or deactivates the
\* trail that is active in another context.
C6_ContextIsolation ==
    [][\A c \in Contexts, d \in Contexts :
        (c # d /\ ctx[d] # None /\ Call(c)) =>
            /\ trails'[ctx[d]] = trails[ctx[d]]
            /\ ctx'[d] = ctx[d]
            /\ ret'.trail # ctx[d]]_vars

\* The entries of a list or dict with the output records they refer to in heap h.
Resolved(h, items) ==
    [i \in 1..Len(items) |->
        IF ItemVal(items[i]).k = "ref"
        THEN [k |-> "obj", v |-> h[ItemVal(items[i]).v].items]
        ELSE items[i]]

\* What a trace stores of facts, rule_results, outputs and final_result, the
\* output records included.
Snapshot(h, tr) ==
    [facts |-> Deref(h, tr.facts),
     rule_results |-> Deref(h, tr.rule_results),
     outputs |-> Resolved(h, Deref(h, tr.outputs)),
     final_result |-> Resolved(h, Deref(h, tr.final_result))]

\* C7: no mutation the caller makes on the structures it passed to log_decision
\* changes what a stored trace holds of facts, rule_results, outputs and final_result.
C7_Snapshot ==
    [][muts' # muts =>
        \A t \in 1..Len(trails) : \A i \in 1..Len(trails[t]) :
            Snapshot(heap', trails[t][i]) = Snapshot(heap, trails[t][i])]_vars

\* C8: with a trail active, log_decision never raises to its caller.
C8_NeverRaises == ret.op = "log_decision" => ~ret.raised

\* The expressions of a row of output_expressions: the row's own when it is a
\* list, the row itself when it is a single expression.
ExprsOf(row) == IF row.k = "row" THEN row.v ELSE <<row.v>>

\* C16: in the trace a log_decision call stores, evaluated_outputs has one row
\* per row of output_expressions and in a row one string per expression, in the
\* same order, each the substitution of that expression against the facts; it
\* is empty when output_expressions is empty or was not supplied.
C16_EvaluatedShape ==
    [][\A c \in Contexts :
        (LogStep(c) /\ ctx[c] # None /\ ~ret'.raised) =>
            LET tr == trails'[ctx[c]][Len(trails'[ctx[c]])]
                oe == Deref(heap', tr.output_expressions)
                facts == Deref(heap', tr.facts)
                ev == tr.evaluated_outputs
            IN  /\ Len(ev) = Len(oe)
                /\ oe = <<>> => ev = <<>>
                /\ \A r \in 1..Len(oe) :
                    /\ Len(ev[r]) = Len(ExprsOf(oe[r]))
                    /\ \A j \in 1..Len(ExprsOf(oe[r])) :
                        evaluate_expression(ExprsOf(oe[r])[j], facts) = Ok(ev[r][j])]_vars

\* A trail holds a trace with a row of two substituted expressions and a row of
\* one, and a trace without output expressions whose facts the substitution
\* cannot render: it was stored with no substitution run.
C16_Witness ==
    \E t \in 1..Len(trails) : \E i \in 1..Len(trails[t]), j \in 1..Len(trails[t]) :
        /\ Len(trails[t][i].evaluated_outputs) = 2
        /\ Len(trails[t][i].evaluated_outputs[1]) = 2
        /\ Len(trails[t][i].evaluated_outputs[2]) = 1
        /\ trails[t][i].evaluated_outputs[1][1] # ExprsOf(Deref(heap, trails[t][i].output_expressions)[1])[1]
        /\ trails[t][j].evaluated_outputs = <<>>
        /\ Deref(heap, trails[t][j].output_expressions) = <<>>
        /\ ~evaluate_expression(<<"p">>, Deref(heap, trails[t][j].facts)).ok

\* Trail t is the active trail of no execution context.
Inactive(t) == \A c \in Contexts : ctx[c] # t

\* C19: a trail that is the active trail of no context is frozen: no
\* start_audit, stop_audit or log_decision call, nor any other step but a
\* direct call of its add_trace method, changes its trace sequence, and no
\* step makes it active again. (is_auditing is a query and changes nothing.)
C19_InactiveFrozen ==
    [][\A t \in 1..Len(trails) :
        Inactive(t) =>
            /\ (\A c \in Contexts : ~AddStep(c)) => trails'[t] = trails[t]
            /\ \A c \in DOMAIN ctx' : ctx'[c] # t]_vars

\* With two execution contexts, a trail that holds a trace is active in
\* neither, and log_decision has since stored a trace in the trail that is
\* active in its context.
C19_Witness ==
    /\ Cardinality(Contexts) = 2
    /\ ret.op = "log_decision"
    /\ ~ret.raised
    /\ ctx[ret.c] # None
    /\ trails[ctx[ret.c]] # <<>>
    /\ \E t \in 1..Len(trails) : Inactive(t) /\ trails[t] # <<>>

\* C20: log_decision is all-or-nothing. A call that raises leaves every trail's
\* trace sequence and every context's active trail as they were; a call that
\* returns normally with a trail active has extended that trail by exactly one
\* trace and changed no other trail and no context's active trail.
C20_AllOrNothing ==
    [][\A c \in Contexts :
        LogStep(c) =>
            /\ ctx' = ctx
            /\ ret'.raised => trails' = trails
            /\ (~ret'.raised /\ ctx[c] # None) =>
                /\ Extended(ctx[c])
                /\ \A t \in 1..Len(trails) : t # ctx[c] => trails'[t] = trails[t]]_vars

\* log_decision has raised in a context whose active trail holds the trace of
\* an earlier call.
C20_Witness ==
    /\ ret.op = "log_decision"
    /\ ret.raised
    /\ ctx[ret.c] # None
    /\ Len(trails[ctx[ret.c]]) >= 1

\* The number of entries of the sequence q equal to x.
Count(q, x) == Cardinality({i \in 1..Len(q) : q[i] = x})
Titles == {a.table_title : a \in ArgSamples}
TitlesOf(traces) == [i \in 1..Len(traces) |-> traces[i].table_title]
RECURSIVE CountLogged(_, _)
CountLogged(us, x) ==
    IF us = {} THEN 0
    ELSE LET u == CHOOSE u \in us : TRUE
         IN  Count(units[u].logged, x) + CountLogged(us \ {u}, x)

\* The trace is the complete record of a call made with the argument list a.
CompleteFor(tr, a) ==
    /\ tr.table_title = a.table_title
    /\ Deref(heap, tr.facts) = a.facts
    /\ Deref(heap, tr.rule_results) = Bools(a.rule_results)
    /\ tr.matched_rules = IndicesOfTrue(a.rule_results)
    /\ Len(Deref(heap, tr.outputs)) = Len(a.outputs.v)
    /\ Len(Deref(heap, tr.final_result)) = Len(a.final_result.v)

\* C17: when the concurrent units that share the active trail have all
\* finished their log_decision calls, the trail holds exactly one trace for
\* each call made, each the complete record of that call: no append is lost.
C17_Serialized ==
    (\A u \in Units : units[u].pc = "idle") =>
        /\ \A x \in Titles : Count(TitlesOf(trails[1]), x) = CountLogged(Units, x)
        /\ \A i \in 1..Len(trails[1]) :
            \E a \in ArgSamples : CompleteFor(trails[1][i], a)

\* ---------------------------------------------------------------- properties of the substitution
\* Name occurs in text s as a whole token.
Occurs(s, name) == \E i \in 1..Len(s) : MatchAt(s, name, i)

\* The literal rendering of a value: a boolean as lowercase true / false, a text
\* as the text between double quotes with nothing escaped, another scalar as its
\* default string form.
Rendering(value) ==
    CASE value.k = "bool" -> (IF value.v THEN <<"t", "r", "u", "e">> ELSE <<"f", "a", "l", "s", "e">>)
      [] value.k = "str" -> <<"\"">> \o value.v \o <<"\"">>
      [] value.k = "int" -> IntStr(value.v)

\* Text s from position i on with every whole-token occurrence of a fact name
\* replaced by the rendering of that fact's value, the rest copied.
RECURSIVE Replaced(_, _, _)
Replaced(s, items, i) ==
    IF i > Len(s) THEN <<>>
    ELSE LET ks == {k \in 1..Len(items) : MatchAt(s, items[k].key, i)} IN
         IF ks # {}
         THEN LET k == CHOOSE k \in ks : TRUE
              IN  Rendering(items[k].val) \o Replaced(s, items, i + Len(items[k].key))
         ELSE <<s[i]>> \o Replaced(s, items, i + 1)

\* C11: for every expression and fact mapping, evaluate_expression returns the
\* expression with every whole-token occurrence of a fact name replaced by the
\* literal rendering of that fact's own value and all other text unchanged.
C11_WholeTokens ==
    /\ sub.pc # "raised"
    /\ sub.pc = "done" => sub.evaluated = Replaced(sub.expr, sub.facts_dict, 1)

\* a is a proper substring of b.
IsSubstring(a, b) ==
    /\ Len(a) < Len(b)
    /\ \E i \in 1..Len(b) - Len(a) + 1 : SubSeq(b, i, i + Len(a) - 1) = a

\* The pieces of text s between the whole-token occurrences of name, from
\* position i on: one piece more than there are occurrences.
RECURSIVE Segments(_, _, _)
Segments(s, name, i) ==
    IF i > Len(s) THEN << <<>> >>
    ELSE IF MatchAt(s, name, i) THEN << <<>> >> \o Segments(s, name, i + Len(name))
    ELSE LET r == Segments(s, name, i + 1) IN << <<s[i]>> \o r[1] >> \o Tail(r)

Without(items, name) == SelectSeq(items, LAMBDA e : e.key # name)

\* The pieces, each substituted against items, joined by lit.
RECURSIVE Joined(_, _, _)
Joined(segs, lit, items) ==
    LET first == evaluate_expression(segs[1], items) IN
    IF Len(segs) = 1 THEN first
    ELSE LET rest == Joined(Tail(segs), lit, items) IN
         IF first.ok /\ rest.ok THEN Ok(first.s \o lit \o rest.s) ELSE Fail

\* The expression with every whole-token occurrence of name rendered with its
\* own value and kept so, the text between the occurrences substituted against
\* the other facts.
LongerKept(expr, items, name) ==
    Joined(Segments(expr, name, 1), Rendering(Lookup(items, name)), Without(items, name))

\* C12: when a fact name is a proper substring of another fact name, every
\* whole-token occurrence of the longer name in the expression is rendered with
\* the longer name's value in the result, and is not rewritten with the shorter
\* name's value.
C12_LongestFirst ==
    SubEnded =>
        \A i \in 1..Len(sub.facts_dict), j \in 1..Len(sub.facts_dict) :
            LET short == sub.facts_dict[i].key
                long == sub.facts_dict[j].key
            IN  (IsSubstring(short, long) /\ Occurs(sub.expr, long)) =>
                    /\ sub.pc = "done"
                    /\ LongerKept(sub.expr, sub.facts_dict, long) = Ok(sub.evaluated)

\* A step of a run that is in its loop with a name to visit: one pass.
PassStep == sub.pc = "loop" /\ sub.var_names # <<>> /\ sub' # sub

\* C13: every pass replaces each whole-token occurrence of its name by the
\* rendering of the value by kind: true / false for a boolean, the text between
\* double quotes with no escaping for a text, the default string form otherwise.
C13_Rendering ==
    [][PassStep =>
        LET var_name == sub.var_names[1]
            value == Lookup(sub.facts_dict, var_name)
        IN  /\ sub'.pc = "loop"
            /\ sub'.evaluated = SubFrom(sub.evaluated, var_name, Rendering(value), 1)]_vars

\* C14: the substitution never fails on missing variables: when no fact name
\* occurs in the expression as a whole token, it returns the expression unchanged.
C14_MissingVariables ==
    (SubEnded /\ \A i \in 1..Len(sub.facts_dict) : ~Occurs(sub.expr, sub.facts_dict[i].key)) =>
        /\ sub.pc = "done"
        /\ sub.evaluated = sub.expr

\* The orders in which the names of items can be taken, and those of
\* descending name length.
Orders(items) ==
    LET n == Len(items) IN
    {[i \in 1..n |-> items[o[i]].key] :
        o \in {q \in [1..n -> 1..n] : \A i \in 1..n, j \in 1..n : i # j => q[i] # q[j]}}
Descending(names) ==
    \A i \in 1..Len(names), j \in 1..Len(names) : i < j => Len(names[i]) >= Len(names[j])

\* The passes over the names of order ord, each on the text the passes before
\* it left: the last pass applied to the result of the others.
RECURSIVE PassesOver(_, _, _)
PassesOver(expr, ord, items) ==
    IF ord = <<>> THEN Ok(expr)
    ELSE LET n == Len(ord)
             before == PassesOver(expr, SubSeq(ord, 1, n - 1), items)
         IN  IF before.ok
             THEN ReSub(ord[n], ValueStr(Lookup(items, ord[n])), before.s)
             ELSE Fail

\* C15: the substitution is sequential and cumulative. The loop visits the
\* names in descending order of length, and the outcome of a run is that of the
\* passes over the names in such an order, each pass made on the text as the
\* passes before it rewrote it.
C15_Cumulative ==
    /\ sub.pc = "loop" =>
        /\ Descending(sub.var_names)
        /\ \A i \in 1..Len(sub.facts_dict), j \in 1..Len(sub.var_names) :
            Len(sub.facts_dict[i].key) < Len(sub.var_names[j]) =>
                \E k \in 1..Len(sub.var_names) : sub.var_names[k] = sub.facts_dict[i].key
    /\ SubEnded =>
        \E ord \in {o \in Orders(sub.facts_dict) : Descending(o)} :
            LET f == PassesOver(sub.expr, ord, sub.facts_dict)
            IN  IF sub.pc = "done" THEN f = Ok(sub.evaluated) ELSE ~f.ok

\* A run has returned a text in which a literal substituted by a pass for a
\* longer name was substituted again by the pass for a name it contains: the
\* result is not the expression with its own names replaced.
C15_Witness ==
    /\ sub.pc = "done"
    /\ sub.evaluated # Replaced(sub.expr, sub.facts_dict, 1)
    /\ \E i \in 1..Len(sub.facts_dict), j \in 1..Len(sub.facts_dict) :
        /\ Len(sub.facts_dict[i].key) > Len(sub.facts_dict[j].key)
        /\ sub.facts_dict[i].val = VStr(sub.facts_dict[j].key)
        /\ Occurs(sub.expr, sub.facts_dict[i].key)
        /\ ~Occurs(sub.expr, sub.facts_dict[j].key)
        /\ sub.evaluated =
             SubFrom(sub.expr, sub.facts_dict[i].key,
                     <<"\"">> \o Rendering(sub.facts_dict[j].val) \o <<"\"">>, 1)

\* The fact mappings with the entries of items, in every insertion order.
Reorderings(items) ==
    LET n == Len(items) IN
    {[i \in 1..n |-> items[o[i]]] :
        o \in {q \in [1..n -> 1..n] : \A i \in 1..n, j \in 1..n : i # j => q[i] # q[j]}}

\* C18: the rendered output is reproducible: substituting the same expression
\* against any fact mapping with the same name-to-value pairs gives the string
\* the run returned.
C18_Reproducible ==
    sub.pc = "done" =>
        \A items \in Reorderings(sub.facts_dict) :
            evaluate_expression(sub.expr, items) = Ok(sub.evaluated)

====
